---- MODULE Spec2Model ----
(***************************************************************************)
(* A model of the ingestion pipeline: chunker.py (chunk_text),             *)
(* extractor.py (clean_json_response, extract_from_chunk), storage.py      *)
(* (store_extraction, get_all_triples) and agent.py (process_document,     *)
(* listen_mode, main).                                                     *)
(*                                                                         *)
(* Python strings are sequences of one-character strings.  Every component *)
(* has its own variables and its own specification; a specification keeps  *)
(* the other components' variables at their idle values.                   *)
(***************************************************************************)
EXTENDS Integers, Sequences, FiniteSets, TLC

VARIABLES
    ck_text,      \* chunk_text: the argument text
    ck_size,      \* chunk_text: the argument chunk_size
    ck_overlap,   \* chunk_text: the argument overlap
    ck_out,       \* chunk_text: the outcome of the call ("none" before it)
    cj_text,      \* clean_json_response: the argument text
    cj_out,       \* clean_json_response: the local cleaned after line 47 and the result
    ex_text,      \* extract_from_chunk: the argument text
    ex_chunk_id,  \* extract_from_chunk: the argument chunk_id
    ex_source,    \* extract_from_chunk: the argument source
    ex_service,   \* what the extraction service does when it is called
    ex_calls,     \* the number of calls of the extraction service
    ex_out,       \* extract_from_chunk: the outcome of the call ("none" before it)
    db,           \* the Redis database: key -> hash (field -> string)
    st_written,   \* history: (source_file, chunk_id) -> the triples last stored for it
    st_repeated,  \* history: some (source_file, chunk_id) was stored more than once
    st_last,      \* history: the last call of store_extraction and what it returned
    st_ncalls,    \* history: the number of calls of store_extraction
    ag_pc,        \* agent: where main or listen_mode stands
    ag_args,      \* main: the file paths of the command line
    ag_k,         \* main: the position in ag_args of the file at hand (1-based)
    ag_inbox,     \* listen_mode: the messages pubsub.listen() has yet to yield
    ag_announced, \* history: the paths published to documents_to_process
    ag_taken,     \* history: the paths listen_mode has taken from the channel
    ag_published, \* the messages published to processing_complete
    ag_doc,       \* process_document: file_path, chunks, i, total_entities, total_triples
    ag_all_stats, \* main: all_stats
    ag_printed,   \* main: what it has printed (not-found lines, the summary)
    fl_last,      \* history: the last call of flush_triples, the store before and after
    fl_ncalls     \* history: the calls made on the store flush_triples works on

chunkerVars == <<ck_text, ck_size, ck_overlap, ck_out>>

cleanVars == <<cj_text, cj_out>>

extractVars == <<ex_text, ex_chunk_id, ex_source, ex_service, ex_calls, ex_out>>

storeVars == <<db, st_written, st_repeated, st_last, st_ncalls>>

agentVars == <<ag_pc, ag_args, ag_k, ag_inbox, ag_announced, ag_taken, ag_published,
               ag_doc, ag_all_stats, ag_printed>>

flushVars == <<fl_last, fl_ncalls>>

vars == <<chunkerVars, cleanVars, extractVars, storeVars, agentVars, flushVars>>

(***************************************************************************)
(* Bounds of the model.                                                    *)
(***************************************************************************)
MaxTextLen == 7
MaxChunkSize == 3
MaxBodyLen == 5
MaxEntities == 2
MaxTriples == 4
MaxStoredTriples == 2
MaxCalls == 2
MaxDocs == 3
MaxFlushCalls == 3

(***************************************************************************)
(* Helpers on sequences.                                                   *)
(***************************************************************************)
SeqsUpTo(S, n) == UNION {[1..k -> S] : k \in 0..n}

Min(a, b) == IF a <= b THEN a ELSE b

Max(a, b) == IF a >= b THEN a ELSE b

Digits == <<"0", "1", "2", "3", "4", "5", "6", "7", "8", "9">>

\* str(n) of an int n.
RECURSIVE str_int(_)
str_int(n) ==
    IF n < 0 THEN <<"-">> \o str_int(-n)
    ELSE IF n < 10 THEN <<Digits[n + 1]>>
    ELSE str_int(n \div 10) \o <<Digits[(n % 10) + 1]>>

DigitValue(c) == CHOOSE d \in 0..9 : Digits[d + 1] = c

IsDigit(c) == \E d \in 0..9 : Digits[d + 1] = c

\* int(s) of a string s of decimal digits.
RECURSIVE parse_int(_)
parse_int(s) ==
    IF Len(s) = 1 THEN DigitValue(s[1])
    ELSE 10 * parse_int(SubSeq(s, 1, Len(s) - 1)) + DigitValue(s[Len(s)])

\* A result or the exception raised instead of it.
Ok(v) == [ok |-> TRUE, exc |-> "", val |-> v]

Exc(e) == [ok |-> FALSE, exc |-> e, val |-> <<>>]

\* Python's s[i:j] for 0 <= i, 0 <= j (0-based, j exclusive, clipped to the end).
Slice(s, i, j) == SubSeq(s, i + 1, Min(j, Len(s)))

(***************************************************************************)
(* chunker.py                                                              *)
(***************************************************************************)
TextChars == {"a", "b", " "}

IsSpace(c) == c = " "

RECURSIVE SplitFrom(_, _, _, _)
SplitFrom(s, i, cur, acc) ==
    IF i > Len(s)
    THEN IF cur = <<>> THEN acc ELSE Append(acc, cur)
    ELSE IF IsSpace(s[i])
         THEN SplitFrom(s, i + 1, <<>>, IF cur = <<>> THEN acc ELSE Append(acc, cur))
         ELSE SplitFrom(s, i + 1, Append(cur, s[i]), acc)

RECURSIVE SplitSepFrom(_, _, _, _)
SplitSepFrom(s, i, cur, acc) ==
    IF i > Len(s)
    THEN Append(acc, cur)
    ELSE IF IsSpace(s[i])
         THEN SplitSepFrom(s, i + 1, <<>>, Append(acc, cur))
         ELSE SplitSepFrom(s, i + 1, Append(cur, s[i]), acc)

\* A plausible slip: text.split(" "), which keeps the empty strings between
\* consecutive blanks.
split_on_blank(text) == SplitSepFrom(text, 1, <<>>, <<>>)

\* text.split(): the maximal runs of non-whitespace characters.
split(text) == SplitFrom(text, 1, <<>>, <<>>)

\* sep.join(words)
RECURSIVE join(_, _)
join(sep, words) ==
    IF words = <<>> THEN <<>>
    ELSE IF Len(words) = 1 THEN words[1]
    ELSE words[1] \o sep \o join(sep, Tail(words))

\* A plausible slip: the step forgets the overlap's last word.
step_off_by_one(chunk_size, overlap) == chunk_size - overlap + 1

\* step = chunk_size - overlap
step_of(chunk_size, overlap) == chunk_size - overlap

\* The body of `for i in range(0, len(words), step)` for step > 0, from index i.
RECURSIVE window_loop(_, _, _, _, _)
window_loop(words, chunk_size, step, i, chunks) ==
    IF i >= Len(words)
    THEN chunks
    ELSE LET chunk == join(<<" ">>, Slice(words, i, i + chunk_size))
             appended == IF chunk # <<>> THEN Append(chunks, chunk) ELSE chunks
         IN  IF i + chunk_size >= Len(words)
             THEN appended
             ELSE window_loop(words, chunk_size, step, i + step, appended)

NoOutcome == [kind |-> "none", exc |-> "", chunks |-> <<>>]

Returned(chunks) == [kind |-> "returned", exc |-> "", chunks |-> chunks]

Raised(exc) == [kind |-> "raised", exc |-> exc, chunks |-> <<>>]

\* chunk_text(text, chunk_size, overlap).  range(0, n, 0) raises ValueError and
\* range(0, n, step) with step < 0 is empty.
chunk_text(text, chunk_size, overlap) ==
    LET words == split(text)
        step == step_of(chunk_size, overlap)
    IN  IF Len(words) <= chunk_size
        THEN Returned(<<text>>)
        ELSE IF step = 0
             THEN Raised("ValueError")
             ELSE IF step < 0
                  THEN Returned(<<>>)
                  ELSE Returned(window_loop(words, chunk_size, step, 0, <<>>))

(***************************************************************************)
(* JSON values, as json.loads returns them.                                *)
(***************************************************************************)
JStr(s) == [t |-> "str", s |-> s]

JNum(n) == [t |-> "num", n |-> n]

JDict(f) == [t |-> "dict", f |-> f]

JList(items) == [t |-> "list", items |-> items]

IsDict(v) == v.t = "dict"

IsList(v) == v.t = "list"

HasKey(d, k) == k \in DOMAIN d.f

(***************************************************************************)
(* extractor.py: clean_json_response, and json.loads on the model's JSON   *)
(* texts.  A JSON text is a sequence over "[", "]", "{", "}", ",", blanks  *)
(* and two object members that hold no bracket: "N" is the member          *)
(* "name": "Alpha" and "T" is the member "type": "UNIT".                   *)
(***************************************************************************)
\* "#" is the backtick.
JsonChars == {"[", "]", "{", "}", ",", "N", "T"}

Fence == <<"#", "#", "#">>

FenceJson == <<"#", "#", "#", "j", "s", "o", "n">>

RECURSIVE lstrip(_)
lstrip(s) == IF s # <<>> /\ IsSpace(s[1]) THEN lstrip(Tail(s)) ELSE s

RECURSIVE rstrip(_)
rstrip(s) ==
    IF s # <<>> /\ IsSpace(s[Len(s)]) THEN rstrip(SubSeq(s, 1, Len(s) - 1)) ELSE s

strip(s) == rstrip(lstrip(s))

startswith(s, p) == Len(s) >= Len(p) /\ SubSeq(s, 1, Len(p)) = p

endswith(s, p) == Len(s) >= Len(p) /\ SubSeq(s, Len(s) - Len(p) + 1, Len(s)) = p

\* s.count(c)
RECURSIVE count(_, _)
count(s, c) ==
    IF s = <<>> THEN 0 ELSE (IF s[1] = c THEN 1 ELSE 0) + count(Tail(s), c)

\* c * k: the empty string when k <= 0.
Times(c, k) == [i \in 1..k |-> c]

\* Lines 35-47: strip, drop an opening fence (three backticks, with or
\* without json), drop a closing fence, strip.
fence_stripped(text) ==
    LET cleaned == strip(text)
        opened == IF startswith(cleaned, FenceJson)
                  THEN SubSeq(cleaned, 8, Len(cleaned))
                  ELSE IF startswith(cleaned, Fence)
                       THEN SubSeq(cleaned, 4, Len(cleaned))
                       ELSE cleaned
        closed == IF endswith(opened, Fence)
                  THEN SubSeq(opened, 1, Len(opened) - 3)
                  ELSE opened
    IN  strip(closed)

\* A plausible slip: the brackets are closed before the braces.
repair_brackets_first(cleaned) ==
    IF cleaned # <<>> /\ ~endswith(cleaned, <<"]">>)
    THEN cleaned \o Times("]", count(cleaned, "[") - count(cleaned, "]"))
                 \o Times("}", count(cleaned, "{") - count(cleaned, "}"))
    ELSE cleaned

\* Lines 50-57: close the brackets a truncated text left open.
repair(cleaned) ==
    IF cleaned # <<>> /\ ~endswith(cleaned, <<"]">>)
    THEN LET open_brackets == count(cleaned, "[") - count(cleaned, "]")
             open_braces == count(cleaned, "{") - count(cleaned, "}")
         IN  cleaned \o Times("}", open_braces) \o Times("]", open_brackets)
    ELSE cleaned

clean_json_response(text) ==
    IF text = <<>> THEN <<"[", "]">> ELSE repair(fence_stripped(text))

MemberKey(c) == IF c = "N" THEN "name" ELSE "type"

MemberValue(c) == IF c = "N" THEN JStr("Alpha") ELSE JStr("UNIT")

ParseFail == [ok |-> FALSE, val |-> JList(<<>>), pos |-> 0]

ParseOk(val, pos) == [ok |-> TRUE, val |-> val, pos |-> pos]

RECURSIVE SkipBlanks(_, _)
SkipBlanks(s, i) == IF i <= Len(s) /\ IsSpace(s[i]) THEN SkipBlanks(s, i + 1) ELSE i

\* The members of an object after its "{" or a ",": member ("," member)* "}".
RECURSIVE ParseMembers(_, _, _)
ParseMembers(s, i0, acc) ==
    LET i == SkipBlanks(s, i0)
        j == SkipBlanks(s, i + 1)
    IN  IF i > Len(s) \/ s[i] \notin {"N", "T"} \/ j > Len(s)
        THEN ParseFail
        ELSE LET f == (MemberKey(s[i]) :> MemberValue(s[i])) @@ acc
             IN  IF s[j] = ","
                 THEN ParseMembers(s, j + 1, f)
                 ELSE IF s[j] = "}"
                      THEN ParseOk(JDict(f), j + 1)
                      ELSE ParseFail

\* A value is an array or an object; ParseElements reads the elements of an array
\* after its "[" or a ",": value ("," value)* "]".
RECURSIVE ParseValue(_, _)
RECURSIVE ParseElements(_, _, _)
ParseValue(s, i0) ==
    LET i == SkipBlanks(s, i0)
        j == SkipBlanks(s, i + 1)
    IN  IF i > Len(s)
        THEN ParseFail
        ELSE IF s[i] = "["
             THEN IF j <= Len(s) /\ s[j] = "]"
                  THEN ParseOk(JList(<<>>), j + 1)
                  ELSE ParseElements(s, j, <<>>)
             ELSE IF s[i] = "{"
                  THEN IF j <= Len(s) /\ s[j] = "}"
                       THEN ParseOk(JDict(<<>>), j + 1)
                       ELSE ParseMembers(s, j, <<>>)
                  ELSE ParseFail

ParseElements(s, i, acc) ==
    LET r == ParseValue(s, i)
        j == SkipBlanks(s, r.pos)
    IN  IF ~r.ok \/ j > Len(s)
        THEN ParseFail
        ELSE IF s[j] = ","
             THEN ParseElements(s, j + 1, Append(acc, r.val))
             ELSE IF s[j] = "]"
                  THEN ParseOk(JList(Append(acc, r.val)), j + 1)
                  ELSE ParseFail

\* json.loads(s): the value, or JSONDecodeError (ok = FALSE) when s is not one
\* JSON value with nothing but blanks around it.
json_loads(s) ==
    LET r == ParseValue(s, 1)
    IN  IF r.ok /\ SkipBlanks(s, r.pos) > Len(s)
        THEN [ok |-> TRUE, val |-> r.val]
        ELSE [ok |-> FALSE, val |-> JList(<<>>)]

CleanNotCalled == [kind |-> "none", stripped |-> <<>>, cleaned |-> <<>>]

(***************************************************************************)
(* models.py: Entity and Triple, and their validation.  A confidence is    *)
(* a number of tenths: 10 is 1.0.                                          *)
(***************************************************************************)
DefaultConfidence == 10

UNKNOWN == <<"U", "N", "K", "N", "O", "W", "N">>

HasStr(d, k) == HasKey(d, k) /\ d.f[k].t = "str"

\* Entity(name=..., type=...)
EntityOf(name, type) == [name |-> name, type |-> type]

\* Entity(**e): TypeError when e is no mapping, ValidationError when a required
\* field is missing or is no string.
Entity(e) ==
    IF ~IsDict(e) THEN Exc("TypeError")
    ELSE IF HasStr(e, "name") /\ HasStr(e, "type")
         THEN Ok(EntityOf(e.f["name"].s, e.f["type"].s))
         ELSE Exc("ValidationError")

\* Triple(subject=..., predicate=..., object=..., confidence=...)
Triple(subject, predicate, object, confidence) ==
    IF predicate.t = "str" /\ confidence.t = "num"
    THEN Ok([subject |-> subject, predicate |-> predicate.s,
             object |-> object, confidence |-> confidence.n])
    ELSE Exc("ValidationError")

ExtractionResult(source_file, chunk_id, entities, triples) ==
    [source_file |-> source_file, chunk_id |-> chunk_id,
     entities |-> entities, triples |-> triples]

(***************************************************************************)
(* extractor.py: extract_from_chunk.                                       *)
(***************************************************************************)
MinChunkChars == 20

\* str(v) of a JSON string or number.
py_str(v) == IF v.t = "str" THEN v.s ELSE str_int(v.n)

RECURSIVE SetToSeq(_)
SetToSeq(S) ==
    IF S = {} THEN <<>> ELSE LET x == CHOOSE x \in S : TRUE IN <<x>> \o SetToSeq(S \ {x})

\* `for x in v`: the items of a list, the keys of a dict, the characters of a
\* string; a number is not iterable.
iterate(v) ==
    IF IsList(v) THEN Ok(v.items)
    ELSE IF IsDict(v) THEN Ok([i \in 1..Cardinality(DOMAIN v.f) |->
                                  JStr(<<SetToSeq(DOMAIN v.f)[i]>>)])
    ELSE IF v.t = "str" THEN Ok([i \in 1..Len(v.s) |-> JStr(<<v.s[i]>>)])
    ELSE Exc("TypeError")

\* t[k]: KeyError when the dict t has no key k, TypeError when t is no dict.
subscript(t, k) ==
    IF IsDict(t)
    THEN IF HasKey(t, k) THEN Ok(t.f[k]) ELSE Exc("KeyError")
    ELSE Exc("TypeError")

\* Line 100: [Entity(**e) for e in entities_raw], up to the first exception.
RECURSIVE entities_of(_, _)
entities_of(items, acc) ==
    IF items = <<>> THEN Ok(acc)
    ELSE LET r == Entity(items[1])
         IN  IF r.ok THEN entities_of(Tail(items), Append(acc, r.val)) ELSE r

\* Lines 109-118: a dict is validated as an Entity, anything else becomes the
\* name of an Entity of type UNKNOWN.
coerce(v) == IF IsDict(v) THEN Entity(v) ELSE Ok(EntityOf(py_str(v), UNKNOWN))

\* Lines 108-125: the Triple of one record, or the first exception on the way.
triple_of(t) ==
    LET s == subscript(t, "subject")
        subject == coerce(s.val)
        o == subscript(t, "object")
        obj == coerce(o.val)
        p == subscript(t, "predicate")
        confidence == IF HasKey(t, "confidence")
                      THEN t.f["confidence"]
                      ELSE JNum(DefaultConfidence)
    IN  IF ~s.ok THEN s
        ELSE IF ~subject.ok THEN subject
        ELSE IF ~o.ok THEN o
        ELSE IF ~obj.ok THEN obj
        ELSE IF ~p.ok THEN p
        ELSE Triple(subject.val, p.val, obj.val, confidence)

\* Lines 127-129: the exceptions the loop over the triples skips a record for.
SkippedInLoop == {"KeyError", "TypeError"}

\* Lines 105-129: the loop over triples_raw.
RECURSIVE triple_loop(_, _)
triple_loop(items, acc) ==
    IF items = <<>> THEN Ok(acc)
    ELSE LET r == triple_of(items[1])
         IN  IF r.ok THEN triple_loop(Tail(items), Append(acc, r.val))
             ELSE IF r.exc \in SkippedInLoop THEN triple_loop(Tail(items), acc)
             ELSE r

\* Lines 138 and 148: the exceptions extract_from_chunk turns into an empty result.
CaughtByExtract == {"JSONDecodeError", "KeyError", "TypeError"}

NotExtracted == [kind |-> "none", exc |-> "", result |-> ExtractionResult(<<>>, 0, <<>>, <<>>)]

\* Lines 75-82: the chunk is skipped, the service is not called.
too_short(text) == text = <<>> \/ Len(strip(text)) < MinChunkChars

\* The local variables entities_raw and triples_raw as the try left them.
Unbound == [bound |-> FALSE, val |-> JList(<<>>)]

Bound(v) == [bound |-> TRUE, val |-> v]

Left(outcome, entities_raw, triples_raw) ==
    [outcome |-> outcome, entities_raw |-> entities_raw, triples_raw |-> triples_raw]

\* Lines 86-136: the body of the try.  The service raises service.exc (when not
\* ""), or answers two texts, of which service.entities and service.triples are
\* what json.loads makes after clean_json_response.
try_body(source, chunk_id, service) ==
    LET entities_raw == service.entities.val
        entity_items == iterate(entities_raw)
        entities == entities_of(entity_items.val, <<>>)
        triples_raw == service.triples.val
        triple_items == iterate(triples_raw)
        triples == triple_loop(triple_items.val, <<>>)
    IN  IF service.exc # "" THEN Left(Exc(service.exc), Unbound, Unbound)
        ELSE IF ~service.entities.ok THEN Left(Exc("JSONDecodeError"), Unbound, Unbound)
        ELSE IF ~entity_items.ok THEN Left(entity_items, Bound(entities_raw), Unbound)
        ELSE IF ~entities.ok THEN Left(entities, Bound(entities_raw), Unbound)
        ELSE IF ~service.triples.ok
             THEN Left(Exc("JSONDecodeError"), Bound(entities_raw), Unbound)
        ELSE IF ~triple_items.ok
             THEN Left(triple_items, Bound(entities_raw), Bound(triples_raw))
        ELSE IF ~triples.ok THEN Left(triples, Bound(entities_raw), Bound(triples_raw))
        ELSE Left(Ok(ExtractionResult(source, chunk_id, entities.val, triples.val)),
                  Bound(entities_raw), Bound(triples_raw))

\* v[:3]: a list and a string can be sliced; a dict and a number raise (a number
\* TypeError; a dict TypeError, KeyError from Python 3.12 on).
sliceable(v) == IsList(v) \/ v.t = "str"

\* Lines 150-151: the handler of KeyError and TypeError prints entities_raw[:3]
\* and triples_raw[:1] when the try bound them; a slice that fails raises out of
\* the handler.
structure_printed(left) ==
    /\ left.entities_raw.bound => sliceable(left.entities_raw.val)
    /\ left.triples_raw.bound => sliceable(left.triples_raw.val)

extract_from_chunk(text, chunk_id, source, service) ==
    LET empty == ExtractionResult(source, chunk_id, <<>>, <<>>)
        left == try_body(source, chunk_id, service)
        body == left.outcome
    IN  IF too_short(text)
        THEN [kind |-> "returned", exc |-> "", result |-> empty]
        ELSE IF body.ok
             THEN [kind |-> "returned", exc |-> "", result |-> body.val]
             ELSE IF body.exc = "JSONDecodeError"
                  THEN [kind |-> "returned", exc |-> "", result |-> empty]
             ELSE IF body.exc \in CaughtByExtract
                  THEN IF structure_printed(left)
                       THEN [kind |-> "returned", exc |-> "", result |-> empty]
                       ELSE [kind |-> "raised", exc |-> "TypeError", result |-> empty]
                  ELSE [kind |-> "raised", exc |-> body.exc, result |-> empty]

(***************************************************************************)
(* The answers of the extraction service.                                  *)
(***************************************************************************)
Alpha == <<"A", "l", "p", "h", "a">>

Bravo == <<"B", "r", "a", "v", "o">>

UNIT == <<"U", "N", "I", "T">>

commands == <<"c", "o", "m", "m", "a", "n", "d", "s">>

located_at == <<"l", "o", "c", "a", "t", "e", "d", "_", "a", "t">>

EntityRecord(name) == JDict([name |-> JStr(name), type |-> JStr(UNIT)])

\* The records an entities list may hold: two well-formed ones, one without
\* type, one without name, and a bare string.
EntityItems ==
    { EntityRecord(Alpha),
      EntityRecord(Bravo),
      JDict([name |-> JStr(Alpha)]),
      JDict([type |-> JStr(UNIT)]),
      JStr(Alpha) }

\* The records a triples list may hold: two well-formed ones (structured and
\* bare-string ends), and one each without predicate, without subject, with a
\* subject without type, with an object without name, and a bare string.
TripleItems ==
    { JDict([subject |-> EntityRecord(Alpha), predicate |-> JStr(commands),
             object |-> EntityRecord(Bravo)]),
      JDict([subject |-> JStr(Bravo), predicate |-> JStr(located_at),
             object |-> JStr(Alpha), confidence |-> JNum(5)]),
      JDict([subject |-> EntityRecord(Alpha), object |-> EntityRecord(Bravo)]),
      JDict([predicate |-> JStr(commands), object |-> EntityRecord(Bravo)]),
      JDict([subject |-> JDict([name |-> JStr(Alpha)]), predicate |-> JStr(commands),
             object |-> EntityRecord(Bravo)]),
      JDict([subject |-> EntityRecord(Alpha), predicate |-> JStr(commands),
             object |-> JDict([type |-> JStr(UNIT)])]),
      JStr(commands) }

Loaded(v) == [ok |-> TRUE, val |-> v]

JSONDecodeError == [ok |-> FALSE, val |-> JList(<<>>)]

\* What json.loads makes of an answer: a list of records, a value that is no list,
\* or a JSONDecodeError.
LoadedLists(items, n) == {Loaded(JList(l)) : l \in SeqsUpTo(items, n)}

NotALoadedList == {Loaded(JNum(1)), Loaded(EntityRecord(Alpha)), JSONDecodeError}

ServiceRaises(exc) ==
    [exc |-> exc, entities |-> Loaded(JList(<<>>)), triples |-> Loaded(JList(<<>>))]

ServiceAnswers(entities, triples) ==
    [exc |-> "", entities |-> entities, triples |-> triples]

\* The call of the service fails (a connection error, or an exception of a class
\* extract_from_chunk catches), or it answers.
Services(max_entities, max_triples) ==
    {ServiceRaises(exc) : exc \in {"ServiceError", "TypeError"}}
    \cup {ServiceAnswers(e, t) :
            e \in LoadedLists(EntityItems, max_entities) \cup NotALoadedList,
            t \in LoadedLists(TripleItems, max_triples) \cup NotALoadedList}

\* The chunk texts: empty, one character short of the minimum between blanks, and
\* the minimum, bare or between blanks.
ChunkTexts ==
    { <<>>,
      <<" ">> \o Times("a", MinChunkChars - 1) \o <<" ">>,
      Times("a", MinChunkChars),
      <<" ">> \o Times("a", MinChunkChars) \o <<" ">> }

a_txt == <<"a", ".", "t", "x", "t">>

(***************************************************************************)
(* storage.py.  The database maps a key to a hash; a hash maps a field to  *)
(* a string (the client decodes the responses).                            *)
(***************************************************************************)
TriplePrefix == <<"t", "r", "i", "p", "l", "e", ":">>

EntityPrefix == <<"e", "n", "t", "i", "t", "y", ":">>

\* str(x) of a float x with one decimal, given in tenths: str(1.0) = "1.0".
str_float(tenths) == str_int(tenths \div 10) \o <<".">> \o <<Digits[(tenths % 10) + 1]>>

\* HSET key field value [field value ...]: sets the fields of the mapping and
\* keeps the other fields of a hash that exists.
hset(d, key, mapping) ==
    [k \in DOMAIN d \cup {key} |->
        IF k = key
        THEN IF key \in DOMAIN d THEN mapping @@ d[key] ELSE mapping
        ELSE d[k]]

\* scan_iter(prefix + "*"): the keys that start with the prefix.
scan_iter(d, prefix) == {k \in DOMAIN d : startswith(k, prefix)}

\* A plausible slip: the key forgets the index of the triple in its chunk.
triple_key_without_index(source_file, chunk_id, i) ==
    TriplePrefix \o source_file \o <<":">> \o str_int(chunk_id)

\* Lines 53 and 56: f"triple:{extraction.source_file}:{extraction.chunk_id}:{i}"
triple_key(source_file, chunk_id, i) ==
    TriplePrefix \o source_file \o <<":">> \o str_int(chunk_id) \o <<":">> \o str_int(i)

\* Lines 57-66: the mapping of one triple.
triple_mapping(extraction, triple) ==
    [subject |-> triple.subject.name,
     subject_type |-> triple.subject.type,
     predicate |-> triple.predicate,
     object |-> triple.object.name,
     object_type |-> triple.object.type,
     confidence |-> str_float(triple.confidence),
     source |-> extraction.source_file,
     chunk_id |-> str_int(extraction.chunk_id)]

\* Lines 51-67: the loop over the triples, from index i (0-based).
RECURSIVE store_triples(_, _, _, _)
store_triples(d, extraction, i, stored_count) ==
    IF i >= Len(extraction.triples)
    THEN [db |-> d, stored_count |-> stored_count]
    ELSE LET triple == extraction.triples[i + 1]
             key == triple_key(extraction.source_file, extraction.chunk_id, i)
         IN  store_triples(hset(d, key, triple_mapping(extraction, triple)),
                           extraction, i + 1, stored_count + 1)

\* Lines 70-76: the loop over the entities, from position i (1-based).
RECURSIVE store_entities(_, _, _)
store_entities(d, extraction, i) ==
    IF i > Len(extraction.entities)
    THEN d
    ELSE LET entity == extraction.entities[i]
             entity_key == EntityPrefix \o entity.name
         IN  store_entities(hset(d, entity_key,
                                 [name |-> entity.name, type |-> entity.type,
                                  source |-> extraction.source_file]),
                            extraction, i + 1)

\* store_extraction(r, extraction): the database after it and what it returns.
store_extraction(d, extraction) ==
    LET t == store_triples(d, extraction, 0, 0)
    IN  [db |-> store_entities(t.db, extraction, 1), returned |-> t.stored_count]

\* get_all_triples(r): the hash of every triple key, with its key as "id", in the
\* order of the scan (any order).
get_all_triples(d) ==
    LET keys == SetToSeq(scan_iter(d, TriplePrefix))
    IN  [i \in 1..Len(keys) |-> [id |-> keys[i]] @@ d[keys[i]]]

EmptyDb == <<>>

(***************************************************************************)
(* The ExtractionResults stored.                                           *)
(***************************************************************************)
a_src == <<"a">>

a0_src == <<"a", ":", "0">>

StoredSources == {a_src, a0_src}

StoredChunkIds == {0, 1}

StoredTriples ==
    { [subject |-> EntityOf(Alpha, UNIT), predicate |-> commands,
       object |-> EntityOf(Bravo, UNIT), confidence |-> DefaultConfidence],
      [subject |-> EntityOf(Bravo, UNKNOWN), predicate |-> located_at,
       object |-> EntityOf(Alpha, UNKNOWN), confidence |-> 5] }

\* The entities of an answer: the two ends of each of its triples.
RECURSIVE EndsOf(_)
EndsOf(triples) ==
    IF triples = <<>> THEN <<>>
    ELSE <<triples[1].subject, triples[1].object>> \o EndsOf(Tail(triples))

StoredExtractions ==
    {ExtractionResult(s, c, EndsOf(ts), ts) :
        s \in StoredSources, c \in StoredChunkIds,
        ts \in SeqsUpTo(StoredTriples, MaxStoredTriples)}

NotStored == [called |-> FALSE, extraction |-> ExtractionResult(<<>>, 0, <<>>, <<>>),
              returned |-> 0]

(***************************************************************************)
(* extract_text.py and agent.py.  A file is what chunk_text makes of its   *)
(* text: its chunks, each with what the extraction service does on it.     *)
(***************************************************************************)
LongText == Times("a", MinChunkChars)

OneTriple == Loaded(JList(<<
    JDict([subject |-> EntityRecord(Alpha), predicate |-> JStr(commands),
           object |-> EntityRecord(Bravo)])>>))

TwoTriples == Loaded(JList(<<
    JDict([subject |-> EntityRecord(Alpha), predicate |-> JStr(commands),
           object |-> EntityRecord(Bravo)]),
    JDict([subject |-> JStr(Bravo), predicate |-> JStr(located_at),
           object |-> JStr(Alpha), confidence |-> JNum(5)])>>))

TwoEntities == Loaded(JList(<<EntityRecord(Alpha), EntityRecord(Bravo)>>))

EntityWithoutType == Loaded(JList(<<EntityRecord(Alpha), JDict([name |-> JStr(Alpha)])>>))

\* A chunk of a file's text and what the service does on it.
Chunk(text, service) == [text |-> text, service |-> service]

a_path == <<"a", ".", "t", "x", "t">>

b_path == <<"b", ".", "T", "X", "T">>

c_path == <<"c", ".", "p", "d", "f">>

d_path == <<"d", ".", "d", "o", "c", "x">>

m_path == <<"m", ".", "t", "x", "t">>

v_path == <<"v", ".", "t", "x", "t">>

\* The files: a.txt (two chunks, three triples), b.TXT (one chunk, unparsable
\* answer), c.pdf (one chunk, too short), d.docx (unsupported type), m.txt (does
\* not exist) and v.txt (the answer on its second chunk holds an entity without
\* type).
FileSystem ==
    (a_path :> [exists |-> TRUE,
                chunks |-> <<Chunk(LongText, ServiceAnswers(TwoEntities, OneTriple)),
                             Chunk(LongText, ServiceAnswers(TwoEntities, TwoTriples))>>])
    @@ (b_path :> [exists |-> TRUE,
                   chunks |-> <<Chunk(LongText, ServiceAnswers(JSONDecodeError, OneTriple))>>])
    @@ (c_path :> [exists |-> TRUE,
                   chunks |-> <<Chunk(<<"a", " ", "b">>,
                                      ServiceAnswers(TwoEntities, OneTriple))>>])
    @@ (d_path :> [exists |-> TRUE,
                   chunks |-> <<Chunk(LongText, ServiceAnswers(TwoEntities, OneTriple))>>])
    @@ (m_path :> [exists |-> FALSE, chunks |-> <<>>])
    @@ (v_path :> [exists |-> TRUE,
                   chunks |-> <<Chunk(LongText, ServiceAnswers(TwoEntities, OneTriple)),
                                Chunk(LongText,
                                      ServiceAnswers(EntityWithoutType, OneTriple))>>])

Paths == DOMAIN FileSystem

\* Path(file_path).exists()
exists(file_path) == FileSystem[file_path].exists

\* c.lower() of the upper-case letters of the paths and of the responses.
lower_char(c) ==
    CASE c = "T" -> "t" [] c = "X" -> "x" [] c = "P" -> "p" [] c = "D" -> "d"
      [] c = "F" -> "f" [] c = "Y" -> "y" [] c = "N" -> "n" [] c = "E" -> "e"
      [] c = "S" -> "s" [] OTHER -> c

lower(s) == [i \in 1..Len(s) |-> lower_char(s[i])]

\* Path(file_path).name: what follows the last "/".
path_name(file_path) ==
    LET slashes == {i \in 1..Len(file_path) : file_path[i] = "/"}
    IN  IF slashes = {} THEN file_path
        ELSE SubSeq(file_path, (CHOOSE i \in slashes : \A j \in slashes : j <= i) + 1,
                    Len(file_path))

\* Path(file_path).suffix: the name from its last "." on, when that is not its
\* first character.
path_suffix(file_path) ==
    LET name == path_name(file_path)
        dots == {i \in 2..Len(name) : name[i] = "."}
    IN  IF dots = {} THEN <<>>
        ELSE SubSeq(name, CHOOSE i \in dots : \A j \in dots : j <= i, Len(name))

dot_txt == <<".", "t", "x", "t">>

dot_pdf == <<".", "p", "d", "f">>

\* extract_text(file_path): ValueError for an unsupported type; opening a file
\* that does not exist raises FileNotFoundError.  The value is the file's text,
\* given as the chunks chunk_text makes of it (agent.py lines 65 and 70).
extract_text(file_path) ==
    LET suffix == lower(path_suffix(file_path))
    IN  IF suffix = dot_txt \/ suffix = dot_pdf
        THEN IF exists(file_path)
             THEN Ok(FileSystem[file_path].chunks)
             ELSE Exc("FileNotFoundError")
        ELSE Exc("ValueError")

\* str(e): "Unsupported file type: <suffix>" for extract_text's ValueError; of the
\* other exceptions only the class is kept.
UnsupportedFileType ==
    <<"U", "n", "s", "u", "p", "p", "o", "r", "t", "e", "d", " ", "f", "i", "l", "e",
      " ", "t", "y", "p", "e", ":", " ">>

str_exception(exc, file_path) ==
    IF exc = "ValueError"
    THEN UnsupportedFileType \o lower(path_suffix(file_path))
    ELSE <<exc>>

NoDoc == [file_path |-> <<>>, chunks |-> <<>>, i |-> 0,
          total_entities |-> 0, total_triples |-> 0]

\* process_document, lines 58-76: the text is extracted and chunked.
open_document(file_path) ==
    LET text == extract_text(file_path)
    IN  IF text.ok
        THEN Ok([file_path |-> file_path, chunks |-> text.val, i |-> 0,
                 total_entities |-> 0, total_triples |-> 0])
        ELSE text

\* process_document, lines 87-93: the extraction is stored and counted; an
\* exception of extract_from_chunk leaves the loop.
chunk_stored(doc, d, extraction) ==
    IF extraction.kind = "raised"
    THEN [ok |-> FALSE, exc |-> extraction.exc, doc |-> doc, db |-> d]
    ELSE [ok |-> TRUE, exc |-> "",
          doc |-> [doc EXCEPT !.i = @ + 1,
                              !.total_entities = @ + Len(extraction.result.entities),
                              !.total_triples = @ + Len(extraction.result.triples)],
          db |-> store_extraction(d, extraction.result).db]

\* process_document, lines 78-93: chunk i (0-based) is extracted and stored.
process_chunk(doc, d) ==
    chunk_stored(doc, d,
                 extract_from_chunk(doc.chunks[doc.i + 1].text, doc.i,
                                    path_name(doc.file_path),
                                    doc.chunks[doc.i + 1].service))

\* process_document, lines 97-104: the statistics returned.
stats_of(doc) ==
    [file |-> path_name(doc.file_path), chunks |-> Len(doc.chunks),
     entities |-> doc.total_entities, triples |-> doc.total_triples]

\* listen_mode, line 131: f"{file_path}|success|{stats['triples']} triples"
success_message(file_path, stats) ==
    file_path \o <<"|", "s", "u", "c", "c", "e", "s", "s", "|">>
    \o str_int(stats.triples) \o <<" ", "t", "r", "i", "p", "l", "e", "s">>

\* listen_mode, line 134: f"{file_path}|error|{str(e)}"
error_message(file_path, exc) ==
    file_path \o <<"|", "e", "r", "r", "o", "r", "|">> \o str_exception(exc, file_path)

\* A plausible slip: the failure of a document is logged and not published.
unpublished_error(published, file_path, exc) == published

\* listen_mode, lines 133-135: the except branch.
publish_error(published, file_path, exc) ==
    Append(published, error_message(file_path, exc))

\* listen_mode, lines 130-132: the document was processed.
publish_success(published, file_path, stats) ==
    Append(published, success_message(file_path, stats))

(***************************************************************************)
(* storage.py: flush_triples.                                              *)
(***************************************************************************)
\* Lines 132-133 and 136-137: `for key in r.scan_iter(prefix + "*"): r.delete(key)`
delete_scanned(d, prefix) == [k \in DOMAIN d \ scan_iter(d, prefix) |-> d[k]]

\* A plausible slip: the response is compared without lower().
declined_case_sensitive(response) == response # <<"y">>

\* Line 127: response.lower() != 'y'
declined(response) == lower(response) # <<"y">>

\* flush_triples(r, confirm), where response is what input() returns when it is
\* called: the store after the call and the value returned.
flush_triples(d, confirm, response) ==
    IF confirm /\ declined(response)
    THEN [db |-> d, returned |-> FALSE]
    ELSE [db |-> delete_scanned(delete_scanned(d, TriplePrefix), EntityPrefix),
          returned |-> TRUE]

NotFlushed == [called |-> FALSE, confirm |-> FALSE, response |-> <<>>, returned |-> FALSE,
               before |-> EmptyDb, after |-> EmptyDb]

\* What the user types at the prompt "(y/N)": nothing, y, Y, n, N, yes, and y
\* after a blank.
Responses ==
    { <<>>, <<"y">>, <<"Y">>, <<"n">>, <<"N">>, <<"y", "e", "s">>, <<" ", "y">> }

\* The calls of flush_triples: without confirmation (input() is not called), or
\* with confirmation and a response.
FlushCalls ==
    {[confirm |-> FALSE, response |-> <<>>]}
    \cup {[confirm |-> TRUE, response |-> r] : r \in Responses}

\* The results stored in the store that is flushed: two triples of a chunk of a,
\* one triple of a chunk of a:0, and a result with entities and no triple.
FlushedExtractions ==
    { ExtractionResult(a_src, 0,
                       <<EntityOf(Alpha, UNIT), EntityOf(Bravo, UNIT)>>,
                       <<[subject |-> EntityOf(Alpha, UNIT), predicate |-> commands,
                          object |-> EntityOf(Bravo, UNIT), confidence |-> DefaultConfidence],
                         [subject |-> EntityOf(Bravo, UNKNOWN), predicate |-> located_at,
                          object |-> EntityOf(Alpha, UNKNOWN), confidence |-> 5]>>),
      ExtractionResult(a0_src, 1,
                       <<EntityOf(Bravo, UNIT)>>,
                       <<[subject |-> EntityOf(Bravo, UNIT), predicate |-> located_at,
                          object |-> EntityOf(Alpha, UNKNOWN), confidence |-> 5]>>),
      ExtractionResult(a_src, 1, <<EntityOf(UNIT, UNKNOWN)>>, <<>>) }

(***************************************************************************)
(* The idle values of each component's variables.                         *)
(***************************************************************************)
ChunkerIdle ==
    /\ ck_text = <<>>
    /\ ck_size = 1
    /\ ck_overlap = 0
    /\ ck_out = NoOutcome

CleanIdle ==
    /\ cj_text = <<>>
    /\ cj_out = CleanNotCalled

ExtractIdle ==
    /\ ex_text = <<>>
    /\ ex_chunk_id = 0
    /\ ex_source = <<>>
    /\ ex_service = ServiceRaises("ServiceError")
    /\ ex_calls = 0
    /\ ex_out = NotExtracted

StoreIdle ==
    /\ db = EmptyDb
    /\ st_written = <<>>
    /\ st_repeated = FALSE
    /\ st_last = NotStored
    /\ st_ncalls = 0

AgentIdle ==
    /\ ag_pc = "off"
    /\ ag_args = <<>>
    /\ ag_k = 1
    /\ ag_inbox = <<>>
    /\ ag_announced = <<>>
    /\ ag_taken = <<>>
    /\ ag_published = <<>>
    /\ ag_doc = NoDoc
    /\ ag_all_stats = <<>>
    /\ ag_printed = <<>>

FlushIdle ==
    /\ fl_last = NotFlushed
    /\ fl_ncalls = 0

(***************************************************************************)
(* SpecChunk: one call of chunk_text on any bounded text.                 *)
(***************************************************************************)
InitChunk ==
    /\ CleanIdle /\ ExtractIdle /\ StoreIdle /\ AgentIdle /\ FlushIdle
    /\ ck_text \in SeqsUpTo(TextChars, MaxTextLen)
    /\ ck_size \in 1..MaxChunkSize
    /\ ck_overlap \in (-1)..MaxChunkSize
    /\ ck_out = NoOutcome

ChunkText ==
    /\ ck_out.kind = "none"
    /\ ck_out' = chunk_text(ck_text, ck_size, ck_overlap)
    /\ UNCHANGED <<ck_text, ck_size, ck_overlap>>
    /\ UNCHANGED <<cleanVars, extractVars, storeVars, agentVars, flushVars>>

NextChunk == ChunkText

SpecChunk == InitChunk /\ [][NextChunk]_vars

(***************************************************************************)
(* SpecClean: one call of clean_json_response on any bounded answer.      *)
(***************************************************************************)
\* The texts the extraction service may answer with: a body, bare or wrapped.
Wrappers ==
    { <<<<>>, <<>>>>,
      <<<<" ">>, <<" ">>>>,
      <<FenceJson \o <<" ">>, <<" ">> \o Fence>>,
      <<Fence \o <<" ">>, <<" ">> \o Fence>>,
      <<FenceJson \o <<" ">>, <<>>>> }

InitClean ==
    /\ ChunkerIdle /\ ExtractIdle /\ StoreIdle /\ AgentIdle /\ FlushIdle
    /\ \E body \in SeqsUpTo(JsonChars, MaxBodyLen), w \in Wrappers :
          cj_text = w[1] \o body \o w[2]
    /\ cj_out = CleanNotCalled

CleanJsonResponse ==
    /\ cj_out.kind = "none"
    /\ cj_out' = [kind |-> "returned",
                  stripped |-> fence_stripped(cj_text),
                  cleaned |-> clean_json_response(cj_text)]
    /\ UNCHANGED cj_text
    /\ UNCHANGED <<chunkerVars, extractVars, storeVars, agentVars, flushVars>>

NextClean == CleanJsonResponse

SpecClean == InitClean /\ [][NextClean]_vars

(***************************************************************************)
(* SpecExtract: one call of extract_from_chunk, on any chunk text and any  *)
(* behaviour of the extraction service.                                    *)
(***************************************************************************)
InitExtract ==
    /\ ChunkerIdle /\ CleanIdle /\ StoreIdle /\ AgentIdle /\ FlushIdle
    /\ ex_text \in ChunkTexts
    /\ ex_chunk_id \in {0, 1}
    /\ ex_source = a_txt
    /\ ex_service \in Services(MaxEntities, MaxTriples)
    /\ ex_calls = 0
    /\ ex_out = NotExtracted

ExtractFromChunk ==
    /\ ex_out.kind = "none"
    /\ ex_out' = extract_from_chunk(ex_text, ex_chunk_id, ex_source, ex_service)
    /\ ex_calls' = IF too_short(ex_text) THEN ex_calls ELSE ex_calls + 1
    /\ UNCHANGED <<ex_text, ex_chunk_id, ex_source, ex_service>>
    /\ UNCHANGED <<chunkerVars, cleanVars, storeVars, agentVars, flushVars>>

NextExtract == ExtractFromChunk

SpecExtract == InitExtract /\ [][NextExtract]_vars

(***************************************************************************)
(* SpecStore: calls of store_extraction on a database that starts empty.   *)
(***************************************************************************)
InitStore == ChunkerIdle /\ CleanIdle /\ ExtractIdle /\ AgentIdle /\ FlushIdle /\ StoreIdle

StoreExtraction(extraction) ==
    LET r == store_extraction(db, extraction)
        pair == <<extraction.source_file, extraction.chunk_id>>
    IN  /\ st_ncalls < MaxCalls
        /\ db' = r.db
        /\ st_written' = (pair :> extraction.triples) @@ st_written
        /\ st_repeated' = (st_repeated \/ pair \in DOMAIN st_written)
        /\ st_last' = [called |-> TRUE, extraction |-> extraction, returned |-> r.returned]
        /\ st_ncalls' = st_ncalls + 1
        /\ UNCHANGED <<chunkerVars, cleanVars, extractVars, agentVars, flushVars>>

NextStore == \E extraction \in StoredExtractions : StoreExtraction(extraction)

SpecStore == InitStore /\ [][NextStore]_vars

(***************************************************************************)
(* listen_mode: the loop over pubsub.listen().  Documents are announced on *)
(* documents_to_process at any time; the loop takes one message at a time. *)
(***************************************************************************)
\* pubsub.listen() yields the confirmation of the subscription first.
InitListen ==
    /\ ChunkerIdle /\ CleanIdle /\ ExtractIdle /\ StoreIdle /\ FlushIdle
    /\ ag_pc = "listen"
    /\ ag_inbox = <<[type |-> "subscribe", data |-> <<"1">>]>>
    /\ ag_args = <<>>
    /\ ag_k = 1
    /\ ag_announced = <<>>
    /\ ag_taken = <<>>
    /\ ag_published = <<>>
    /\ ag_doc = NoDoc
    /\ ag_all_stats = <<>>
    /\ ag_printed = <<>>

\* What listen_mode leaves alone.
ListenFrame ==
    UNCHANGED <<chunkerVars, cleanVars, extractVars, flushVars, st_written, st_repeated, st_last,
                st_ncalls, ag_args, ag_k, ag_all_stats, ag_printed>>

\* A client publishes a path to documents_to_process.
Announce(file_path) ==
    /\ Len(ag_announced) < MaxDocs
    /\ ag_inbox' = Append(ag_inbox, [type |-> "message", data |-> file_path])
    /\ ag_announced' = Append(ag_announced, file_path)
    /\ UNCHANGED <<ag_pc, ag_taken, ag_published, ag_doc, db>>
    /\ ListenFrame

\* Lines 126-135: process_document starts on the path of the message; what
\* extract_text raises is published at once.
ListenOpened(file_path, opened) ==
    IF opened.ok
    THEN /\ ag_pc' = "chunks"
         /\ ag_doc' = opened.val
         /\ UNCHANGED ag_published
    ELSE /\ ag_published' = publish_error(ag_published, file_path, opened.exc)
         /\ UNCHANGED <<ag_pc, ag_doc>>

\* Lines 124-130: the next message is taken; only a message of type 'message'
\* names a document.
ListenTake ==
    /\ ag_pc = "listen"
    /\ ag_inbox # <<>>
    /\ ag_inbox' = Tail(ag_inbox)
    /\ IF Head(ag_inbox).type # "message"
       THEN UNCHANGED <<ag_pc, ag_taken, ag_published, ag_doc>>
       ELSE /\ ag_taken' = Append(ag_taken, Head(ag_inbox).data)
            /\ ListenOpened(Head(ag_inbox).data, open_document(Head(ag_inbox).data))
    /\ UNCHANGED <<ag_announced, db>>
    /\ ListenFrame

\* The chunk was processed, or its exception reached the except branch of
\* listen_mode (lines 133-135).
ListenStepped(step) ==
    IF step.ok
    THEN /\ ag_doc' = step.doc
         /\ db' = step.db
         /\ UNCHANGED <<ag_pc, ag_published>>
    ELSE /\ ag_published' = publish_error(ag_published, ag_doc.file_path, step.exc)
         /\ ag_doc' = NoDoc
         /\ ag_pc' = "listen"
         /\ UNCHANGED db

\* process_document's loop, one chunk.
ListenChunk ==
    /\ ag_pc = "chunks"
    /\ ag_doc.i < Len(ag_doc.chunks)
    /\ ListenStepped(process_chunk(ag_doc, db))
    /\ UNCHANGED <<ag_inbox, ag_announced, ag_taken>>
    /\ ListenFrame

\* process_document returns its statistics; line 131 publishes the success.
ListenDone ==
    /\ ag_pc = "chunks"
    /\ ag_doc.i = Len(ag_doc.chunks)
    /\ ag_published' = publish_success(ag_published, ag_doc.file_path, stats_of(ag_doc))
    /\ ag_doc' = NoDoc
    /\ ag_pc' = "listen"
    /\ UNCHANGED <<ag_inbox, ag_announced, ag_taken, db>>
    /\ ListenFrame

NextListen ==
    \/ \E file_path \in Paths : Announce(file_path)
    \/ ListenTake
    \/ ListenChunk
    \/ ListenDone

SpecListen == InitListen /\ [][NextListen]_vars

(***************************************************************************)
(* main over a list of file paths (no flags).                              *)
(***************************************************************************)
Line(kind, file_path, stats, total) ==
    [kind |-> kind, file_path |-> file_path, stats |-> stats, total |-> total]

RECURSIVE sum_triples(_)
sum_triples(all_stats) ==
    IF all_stats = <<>> THEN 0
    ELSE Head(all_stats).triples + sum_triples(Tail(all_stats))

InitMain ==
    /\ ChunkerIdle /\ CleanIdle /\ ExtractIdle /\ StoreIdle /\ FlushIdle
    /\ ag_pc = "main"
    /\ ag_args \in SeqsUpTo(Paths, MaxDocs)
    /\ ag_k = 1
    /\ ag_inbox = <<>>
    /\ ag_announced = <<>>
    /\ ag_taken = <<>>
    /\ ag_published = <<>>
    /\ ag_doc = NoDoc
    /\ ag_all_stats = <<>>
    /\ ag_printed = <<>>

\* What main leaves alone.
MainFrame ==
    UNCHANGED <<chunkerVars, cleanVars, extractVars, flushVars, st_written, st_repeated, st_last,
                st_ncalls, ag_args, ag_inbox, ag_announced, ag_taken, ag_published>>

\* Lines 166-203: without arguments the usage is printed and the process exits.
MainStart ==
    /\ ag_pc = "main"
    /\ IF ag_args = <<>>
       THEN /\ ag_pc' = "exited"
            /\ ag_printed' = Append(ag_printed, Line("usage", <<>>, <<>>, 0))
       ELSE /\ ag_pc' = "files"
            /\ UNCHANGED ag_printed
    /\ UNCHANGED <<ag_k, ag_doc, ag_all_stats, db>>
    /\ MainFrame

\* Line 209: process_document starts, outside any try: what extract_text raises
\* leaves main.
MainOpened(file_path, opened) ==
    IF opened.ok
    THEN /\ ag_pc' = "chunks"
         /\ ag_doc' = opened.val
         /\ UNCHANGED <<ag_k, ag_printed>>
    ELSE /\ ag_pc' = "raised"
         /\ ag_printed' = Append(ag_printed, Line(opened.exc, file_path, <<>>, 0))
         /\ UNCHANGED <<ag_k, ag_doc>>

\* Lines 204-209: a path that does not exist is reported and skipped; else
\* process_document starts.
MainNextFile ==
    /\ ag_pc = "files"
    /\ ag_k <= Len(ag_args)
    /\ IF ~exists(ag_args[ag_k])
       THEN /\ ag_printed' = Append(ag_printed,
                                    Line("File not found", ag_args[ag_k], <<>>, 0))
            /\ ag_k' = ag_k + 1
            /\ UNCHANGED <<ag_pc, ag_doc>>
       ELSE MainOpened(ag_args[ag_k], open_document(ag_args[ag_k]))
    /\ UNCHANGED <<ag_all_stats, db>>
    /\ MainFrame

\* The chunk was processed, or its exception left process_document and main.
MainStepped(step) ==
    IF step.ok
    THEN /\ ag_doc' = step.doc
         /\ db' = step.db
         /\ UNCHANGED <<ag_pc, ag_printed>>
    ELSE /\ ag_pc' = "raised"
         /\ ag_printed' = Append(ag_printed, Line(step.exc, ag_doc.file_path, <<>>, 0))
         /\ UNCHANGED <<ag_doc, db>>

\* process_document's loop, one chunk.
MainChunk ==
    /\ ag_pc = "chunks"
    /\ ag_doc.i < Len(ag_doc.chunks)
    /\ MainStepped(process_chunk(ag_doc, db))
    /\ UNCHANGED <<ag_k, ag_all_stats>>
    /\ MainFrame

\* Line 210: all_stats.append(stats)
MainDocDone ==
    /\ ag_pc = "chunks"
    /\ ag_doc.i = Len(ag_doc.chunks)
    /\ ag_all_stats' = Append(ag_all_stats, stats_of(ag_doc))
    /\ ag_k' = ag_k + 1
    /\ ag_doc' = NoDoc
    /\ ag_pc' = "files"
    /\ UNCHANGED <<ag_printed, db>>
    /\ MainFrame

\* Lines 212-220: the summary.
MainSummary ==
    /\ ag_pc = "files"
    /\ ag_k > Len(ag_args)
    /\ ag_printed' = Append(ag_printed, Line("PROCESSING COMPLETE", <<>>, ag_all_stats,
                                            sum_triples(ag_all_stats)))
    /\ ag_pc' = "returned"
    /\ UNCHANGED <<ag_k, ag_doc, ag_all_stats, db>>
    /\ MainFrame

NextMain ==
    \/ MainStart
    \/ MainNextFile
    \/ MainChunk
    \/ MainDocDone
    \/ MainSummary

SpecMain == InitMain /\ [][NextMain]_vars

(***************************************************************************)
(* flush_triples on a store that store_extraction fills.                   *)
(***************************************************************************)
InitFlush ==
    /\ ChunkerIdle /\ CleanIdle /\ ExtractIdle /\ AgentIdle
    /\ StoreIdle
    /\ FlushIdle

\* What the calls on the store leave alone.
FlushFrame ==
    UNCHANGED <<chunkerVars, cleanVars, extractVars, agentVars, st_written, st_repeated,
                st_last, st_ncalls>>

\* store_extraction(r, extraction)
FlushFill(extraction) ==
    /\ fl_ncalls < MaxFlushCalls
    /\ db' = store_extraction(db, extraction).db
    /\ fl_ncalls' = fl_ncalls + 1
    /\ UNCHANGED fl_last
    /\ FlushFrame

\* flush_triples(r, confirm)
FlushTriples(call) ==
    /\ fl_ncalls < MaxFlushCalls
    /\ db' = flush_triples(db, call.confirm, call.response).db
    /\ fl_last' = [called |-> TRUE, confirm |-> call.confirm, response |-> call.response,
                   returned |-> flush_triples(db, call.confirm, call.response).returned,
                   before |-> db, after |-> db']
    /\ fl_ncalls' = fl_ncalls + 1
    /\ FlushFrame

NextFlush ==
    \/ \E extraction \in FlushedExtractions : FlushFill(extraction)
    \/ \E call \in FlushCalls : FlushTriples(call)

SpecFlush == InitFlush /\ [][NextFlush]_vars

(***************************************************************************)
(* Claims about chunk_text, checked under SpecChunk.                       *)
(***************************************************************************)
ChunkDone == ck_out.kind # "none"

\* A string holds a word when one of its characters is not whitespace.
HasWord(s) == \E i \in 1..Len(s) : ~IsSpace(s[i])

\* The chunks are windows of the text's words: chunk k holds the words from
\* position start(k) on, single-spaced; the first window starts at the first word,
\* each window but the last starts `overlap` words before the end of the one
\* before it, the last ends with the last word, no window has more than
\* chunk_size words and no word lies between two consecutive windows.
WindowsCover(text, chunk_size, overlap, chunks) ==
    LET words == split(text)
        n == Len(words)
        m == Len(chunks)
        len(k) == Len(split(chunks[k]))
        RECURSIVE start(_)
        start(k) == IF k = 1 THEN 0
                    ELSE IF k = m THEN n - len(k)
                    ELSE start(k - 1) + len(k - 1) - overlap
    IN  /\ m >= 1
        /\ \A k \in 1..m :
              /\ len(k) >= 1
              /\ len(k) <= chunk_size
              /\ start(k) >= 0
              /\ chunks[k] = join(<<" ">>, Slice(words, start(k), start(k) + len(k)))
        /\ \A k \in 1..(m - 1) : start(k + 1) <= start(k) + len(k)
        /\ start(m) + len(m) = n

\* C6: whenever overlap >= chunk_size (chunk_size >= 1), the call ends with an
\* error: it neither returns a list of chunks nor loops.
C6_FailsFastOnBadOverlap ==
    (ChunkDone /\ ck_overlap >= ck_size) => ck_out.kind = "raised"

\* C7 as stated: for every text, the empty and the whitespace-only text included,
\* and every overlap < chunk_size, no returned chunk is empty or word-free.
C7_NeverEmptyChunk ==
    (ChunkDone /\ ck_overlap < ck_size) =>
        /\ ck_out.kind = "returned"
        /\ \A k \in 1..Len(ck_out.chunks) : HasWord(ck_out.chunks[k])

\* C7 as amended: for every text that holds at least one word and every
\* overlap < chunk_size, the call returns at least one chunk and no returned chunk
\* is empty or word-free.
C7_NoEmptyChunkOfWordedText ==
    (ChunkDone /\ ck_overlap < ck_size /\ HasWord(ck_text)) =>
        /\ ck_out.kind = "returned"
        /\ Len(ck_out.chunks) >= 1
        /\ \A k \in 1..Len(ck_out.chunks) : HasWord(ck_out.chunks[k])

\* A text with a run of blanks and more words than chunk_size was cut into
\* several chunks.
C7_Witness ==
    /\ ck_out.kind = "returned"
    /\ ck_overlap < ck_size
    /\ Len(ck_out.chunks) >= 3
    /\ \E i \in 1..(Len(ck_text) - 1) : IsSpace(ck_text[i]) /\ IsSpace(ck_text[i + 1])

\* C8 as stated: for every text of more than chunk_size words and every
\* overlap < chunk_size, the chunks are the covering windows of WindowsCover.
C8_WindowsCoverAnyOverlap ==
    (ChunkDone /\ Len(split(ck_text)) > ck_size /\ ck_overlap < ck_size) =>
        /\ ck_out.kind = "returned"
        /\ WindowsCover(ck_text, ck_size, ck_overlap, ck_out.chunks)

\* C8 as amended: the same for every overlap with 0 <= overlap < chunk_size.
C8_WindowsCover ==
    (ChunkDone /\ Len(split(ck_text)) > ck_size
        /\ 0 <= ck_overlap /\ ck_overlap < ck_size) =>
        /\ ck_out.kind = "returned"
        /\ WindowsCover(ck_text, ck_size, ck_overlap, ck_out.chunks)

\* Four words cut into three windows of two words that share one word each.
C8_Witness ==
    /\ ck_out.kind = "returned"
    /\ Len(split(ck_text)) > ck_size
    /\ ck_overlap = 1
    /\ ck_size = 2
    /\ Len(ck_out.chunks) = 3

(***************************************************************************)
(* Claims about extract_from_chunk, checked under SpecExtract.             *)
(***************************************************************************)
ExtractDone == ex_out.kind # "none"

\* The service was called and answered two texts that json.loads made lists of.
AnsweredLists ==
    /\ ~too_short(ex_text)
    /\ ex_service.exc = ""
    /\ ex_service.entities.ok /\ IsList(ex_service.entities.val)
    /\ ex_service.triples.ok /\ IsList(ex_service.triples.val)

\* A record with the two required fields of an Entity.
WellFormedEntity(e) == IsDict(e) /\ HasStr(e, "name") /\ HasStr(e, "type")

\* A subject or object that can be coerced: a bare string, or a well-formed record.
Coercible(t, k) == HasKey(t, k) /\ (IsDict(t.f[k]) => WellFormedEntity(t.f[k]))

WellFormedTriple(t) ==
    IsDict(t) /\ HasStr(t, "predicate") /\ Coercible(t, "subject") /\ Coercible(t, "object")

EntityRecords == ex_service.entities.val.items

TripleRecords == ex_service.triples.val.items

EntityFrom(e) == EntityOf(e.f["name"].s, e.f["type"].s)

EndFrom(v) == IF IsDict(v) THEN EntityFrom(v) ELSE EntityOf(v.s, UNKNOWN)

TripleFrom(t) ==
    [subject |-> EndFrom(t.f["subject"]), predicate |-> t.f["predicate"].s,
     object |-> EndFrom(t.f["object"]),
     confidence |-> IF HasKey(t, "confidence") THEN t.f["confidence"].n
                    ELSE DefaultConfidence]

MapSeq(s, Op(_)) == [i \in 1..Len(s) |-> Op(s[i])]

WellFormedEntities == MapSeq(SelectSeq(EntityRecords, WellFormedEntity), EntityFrom)

WellFormedTriples == MapSeq(SelectSeq(TripleRecords, WellFormedTriple), TripleFrom)

\* C1: the call never raises: whatever the chunk text and whatever the service
\* does, it returns an ExtractionResult with the given source and chunk_id, whose
\* entities and triples are empty when the call of the service failed or a text
\* it answered could not be parsed.
C1_NeverRaises ==
    ExtractDone =>
        /\ ex_out.kind = "returned"
        /\ ex_out.result.source_file = ex_source
        /\ ex_out.result.chunk_id = ex_chunk_id
        /\ (ex_service.exc # "" \/ ~ex_service.entities.ok \/ ~ex_service.triples.ok
               \/ too_short(ex_text)) =>
              (ex_out.result.entities = <<>> /\ ex_out.result.triples = <<>>)

AllEntityRecords(P(_)) == \A i \in 1..Len(EntityRecords) : P(EntityRecords[i])

SomeEntityRecord(P(_)) == \E i \in 1..Len(EntityRecords) : P(EntityRecords[i])

AllTripleRecords(P(_)) == \A i \in 1..Len(TripleRecords) : P(TripleRecords[i])

MalformedEntity(e) == ~WellFormedEntity(e)

\* A record whose subject and object, where present, can be coerced.
EndsCoercible(t) ==
    IsDict(t) => \A k \in {"subject", "object"} : HasKey(t, k) => Coercible(t, k)

\* C2: when the entities list holds records without name or type beside
\* well-formed records, the call returns exactly the well-formed records as
\* entities, in their order, and the chunk's triples.
C2_MalformedEntityRejectedAlone ==
    ( /\ ExtractDone
      /\ AnsweredLists
      /\ AllEntityRecords(IsDict)
      /\ SomeEntityRecord(MalformedEntity)
      /\ SomeEntityRecord(WellFormedEntity)
      /\ AllTripleRecords(WellFormedTriple) ) =>
        /\ ex_out.kind = "returned"
        /\ ex_out.result.entities = WellFormedEntities
        /\ ex_out.result.triples = WellFormedTriples

\* C3: a triple record without predicate, or whose subject or object is missing or
\* is a structured record without name or type, is skipped alone: the call
\* returns exactly the well-formed triples, in their order.
C3_MalformedTripleSkippedAlone ==
    ( /\ ExtractDone
      /\ AnsweredLists
      /\ AllEntityRecords(WellFormedEntity)
      /\ AllTripleRecords(IsDict) ) =>
        /\ ex_out.kind = "returned"
        /\ ex_out.result.triples = WellFormedTriples

(***************************************************************************)
(* Claims about clean_json_response, checked under SpecClean.              *)
(***************************************************************************)
Occurrences(s, c) == Cardinality({i \in 1..Len(s) : s[i] = c})

\* The openers of s that no closer of s matches, by count.
Unmatched(s, opener, closer) == Max(0, Occurrences(s, opener) - Occurrences(s, closer))

\* [{"name": "Alpha", "type": "UNIT"
TruncatedAlpha == <<"[", "{", "N", ",", "T">>

AlphaRecord == JDict([name |-> JStr("Alpha"), type |-> JStr("UNIT")])

\* C9: when the fence-stripped content is non-empty and does not end with "]", the
\* result is that content followed by one "}" per unmatched "{" and then one "]"
\* per unmatched "["; content that ends with "]" is returned as it is, so a text
\* that already parses as a list parses to the same list after the repair; and
\* the truncated text [{"name": "Alpha", "type": "UNIT" gets "}]" appended and
\* parses to the one record {name: Alpha, type: UNIT}.
C9_TruncationRepair ==
    cj_out.kind = "returned" =>
        LET c == cj_out.stripped
            r == cj_out.cleaned
            braces == Unmatched(c, "{", "}")
            brackets == Unmatched(c, "[", "]")
            direct == json_loads(cj_text)
        IN  /\ (c # <<>> /\ c[Len(c)] # "]") =>
                  /\ Len(r) = Len(c) + braces + brackets
                  /\ SubSeq(r, 1, Len(c)) = c
                  /\ \A i \in 1..braces : r[Len(c) + i] = "}"
                  /\ \A i \in 1..brackets : r[Len(c) + braces + i] = "]"
            /\ (c # <<>> /\ c[Len(c)] = "]") => r = c
            /\ (direct.ok /\ IsList(direct.val)) => json_loads(r) = direct
            /\ c = TruncatedAlpha =>
                  /\ r = TruncatedAlpha \o <<"}", "]">>
                  /\ json_loads(r) = [ok |-> TRUE, val |-> JList(<<AlphaRecord>>)]

\* The truncated answer of the claim, inside an opened fence, was repaired.
C9_Witness ==
    /\ cj_out.kind = "returned"
    /\ startswith(cj_text, FenceJson)
    /\ cj_out.stripped = TruncatedAlpha
    /\ cj_out.cleaned # cj_out.stripped

(***************************************************************************)
(* Claims about the store, checked under SpecStore.                        *)
(***************************************************************************)
\* float(s) of a string with one decimal, in tenths.
parse_float(s) ==
    LET dot == CHOOSE i \in 1..Len(s) : s[i] = "."
    IN  10 * parse_int(SubSeq(s, 1, dot - 1)) + parse_int(SubSeq(s, dot + 1, Len(s)))

RECURSIVE TriplesWritten(_)
TriplesWritten(pairs) ==
    IF pairs = {} THEN 0
    ELSE LET p == CHOOSE p \in pairs : TRUE
         IN  Len(st_written[p]) + TriplesWritten(pairs \ {p})

\* The listed records under the key triple:<source>:<chunk_id>:<index>.
ListedUnder(listed, source, chunk_id, index) ==
    {k \in 1..Len(listed) :
        listed[k].id = <<"t", "r", "i", "p", "l", "e", ":">> \o source \o <<":">>
                          \o str_int(chunk_id) \o <<":">> \o str_int(index)}

RecordHolds(r, source, chunk_id, triple) ==
    /\ r.subject = triple.subject.name
    /\ r.subject_type = triple.subject.type
    /\ r.predicate = triple.predicate
    /\ r.object = triple.object.name
    /\ r.object_type = triple.object.type
    /\ parse_float(r.confidence) = triple.confidence
    /\ r.source = source
    /\ parse_int(r.chunk_id) = chunk_id

\* The list holds as many records as triples were written, and every triple
\* written is listed exactly once under its key, with its own field values.
RoundTrip(listed) ==
    /\ Len(listed) = TriplesWritten(DOMAIN st_written)
    /\ \A p \in DOMAIN st_written :
          \A i \in 1..Len(st_written[p]) :
              /\ Cardinality(ListedUnder(listed, p[1], p[2], i - 1)) = 1
              /\ \A k \in ListedUnder(listed, p[1], p[2], i - 1) :
                    RecordHolds(listed[k], p[1], p[2], st_written[p][i])

\* C10: from an empty store, after calls of store_extraction on results with
\* pairwise distinct (source_file, chunk_id), the last call returned the number of
\* its triples, get_all_triples lists as many records as triples were written,
\* and every triple written is listed exactly once, under the key
\* triple:<source>:<chunk_id>:<index>, with its own field values.
C10_StoreRoundTrip ==
    (st_last.called /\ ~st_repeated) =>
        /\ st_last.returned = Len(st_last.extraction.triples)
        /\ RoundTrip(get_all_triples(db))

\* Two results of two triples each, for the sources a and a:0, were stored.
C10_Witness ==
    /\ st_ncalls = 2
    /\ ~st_repeated
    /\ \E p \in DOMAIN st_written : p[1] = a_src /\ Len(st_written[p]) = 2
    /\ \E p \in DOMAIN st_written : p[1] = a0_src /\ Len(st_written[p]) = 2
    /\ Len(get_all_triples(db)) = 4

(***************************************************************************)
(* Claims about agent.py.                                                  *)
(***************************************************************************)
SupportedType(file_path) ==
    LET suffix == lower(path_suffix(file_path))
    IN  suffix = dot_txt \/ suffix = dot_pdf

\* What extract_from_chunk makes of chunk i (0-based) of the file.
ChunkOutcome(file_path, i) ==
    LET chunk == FileSystem[file_path].chunks[i + 1]
    IN  extract_from_chunk(chunk.text, i, path_name(file_path), chunk.service)

RaisingChunks(file_path) ==
    {i \in 0..(Len(FileSystem[file_path].chunks) - 1) :
        ChunkOutcome(file_path, i).kind = "raised"}

\* The document is of a supported type, exists, and none of its chunks raises.
Processable(file_path) ==
    /\ SupportedType(file_path)
    /\ exists(file_path)
    /\ RaisingChunks(file_path) = {}

UnsupportedDocument(file_path) == exists(file_path) /\ ~SupportedType(file_path)

RECURSIVE TripleCount(_, _)
TripleCount(file_path, n) ==
    IF n = 0 THEN 0
    ELSE TripleCount(file_path, n - 1) + Len(ChunkOutcome(file_path, n - 1).result.triples)

RECURSIVE EntityCount(_, _)
EntityCount(file_path, n) ==
    IF n = 0 THEN 0
    ELSE EntityCount(file_path, n - 1) + Len(ChunkOutcome(file_path, n - 1).result.entities)

StatsExpected(file_path) ==
    [file |-> path_name(file_path), chunks |-> Len(FileSystem[file_path].chunks),
     entities |-> EntityCount(file_path, Len(FileSystem[file_path].chunks)),
     triples |-> TripleCount(file_path, Len(FileSystem[file_path].chunks))]

RECURSIVE ProcessablePaths(_)
ProcessablePaths(paths) ==
    IF paths = <<>> THEN <<>>
    ELSE (IF Processable(Head(paths)) THEN <<Head(paths)>> ELSE <<>>)
         \o ProcessablePaths(Tail(paths))

MainEnded == ag_pc \in {"returned", "raised", "exited"}

\* The batch holds documents of unsupported type and, besides them, only
\* documents that process without an exception or paths that do not exist.
BatchWithUnsupported ==
    /\ \E k \in 1..Len(ag_args) : UnsupportedDocument(ag_args[k])
    /\ \A k \in 1..Len(ag_args) :
          \/ UnsupportedDocument(ag_args[k])
          \/ Processable(ag_args[k])
          \/ ~exists(ag_args[k])

\* C4: in a batch run a document of unsupported type fails alone: its failure
\* is reported, the run is not aborted, and the summary holds the statistics of
\* every processable document of the argument list, in order.
C4_UnsupportedFailsAlone ==
    (MainEnded /\ BatchWithUnsupported) =>
        /\ ag_pc = "returned"
        /\ \A k \in 1..Len(ag_args) :
              UnsupportedDocument(ag_args[k]) =>
                  \E n \in 1..Len(ag_printed) :
                      /\ ag_printed[n].file_path = ag_args[k]
                      /\ ag_printed[n].kind # "PROCESSING COMPLETE"
        /\ LET summary == ag_printed[Len(ag_printed)]
               processed == ProcessablePaths(ag_args)
           IN  /\ summary.kind = "PROCESSING COMPLETE"
               /\ summary.stats = [k \in 1..Len(processed) |-> StatsExpected(processed[k])]

\* The completion message the channel protocol prescribes for a document.
FirstException(file_path) ==
    IF ~SupportedType(file_path) THEN "ValueError"
    ELSE IF ~exists(file_path) THEN "FileNotFoundError"
    ELSE ChunkOutcome(file_path,
                      CHOOSE i \in RaisingChunks(file_path) :
                          \A j \in RaisingChunks(file_path) : i <= j).exc

Completion(file_path) ==
    IF Processable(file_path)
    THEN file_path \o <<"|", "s", "u", "c", "c", "e", "s", "s", "|">>
         \o str_int(StatsExpected(file_path).triples)
         \o <<" ", "t", "r", "i", "p", "l", "e", "s">>
    ELSE file_path \o <<"|", "e", "r", "r", "o", "r", "|">>
         \o str_exception(FirstException(file_path), file_path)

\* The number of taken documents whose processing has ended.
Completed == IF ag_pc = "chunks" THEN Len(ag_taken) - 1 ELSE Len(ag_taken)

\* C5: in listener mode the documents are taken in arrival order, one at a time;
\* each document whose processing has ended has exactly one completion message,
\* in arrival order, success with its triple count or error with the message;
\* the loop never ends, and once the channel is drained and the loop is idle
\* every announced document has its message.
C5_OneCompletionPerDocument ==
    /\ ag_pc \in {"listen", "chunks"}
    /\ Len(ag_taken) <= Len(ag_announced)
    /\ ag_taken = SubSeq(ag_announced, 1, Len(ag_taken))
    /\ Len(ag_published) = Completed
    /\ \A k \in 1..Len(ag_published) : ag_published[k] = Completion(ag_announced[k])
    /\ ag_pc = "chunks" =>
          /\ ag_doc.file_path = ag_announced[Len(ag_taken)]
          /\ ag_doc.i <= Len(ag_doc.chunks)
    /\ (ag_pc = "listen" /\ ag_inbox = <<>>) => Len(ag_published) = Len(ag_announced)

\* d.docx then a.txt were announced: an error message, then a success message
\* with the three triples of a.txt.
C5_Witness ==
    /\ Len(ag_published) >= 2
    /\ ag_announced[1] = d_path
    /\ ag_announced[2] = a_path
    /\ ag_published[1] = d_path \o <<"|", "e", "r", "r", "o", "r", "|">> \o UnsupportedFileType
                         \o <<".", "d", "o", "c", "x">>
    /\ ag_published[2] = a_path \o <<"|", "s", "u", "c", "c", "e", "s", "s", "|", "3",
                                     " ", "t", "r", "i", "p", "l", "e", "s">>

(***************************************************************************)
(* Claims about flush_triples, checked under SpecFlush.                    *)
(***************************************************************************)
\* The affirmative response to the prompt "(y/N)": y, in either case.
Affirmative(response) == response \in {<<"y">>, <<"Y">>}

\* The keys of the triple records and of the entity records of a store.
RecordKeys(d) ==
    {k \in DOMAIN d :
        \/ Len(k) >= 7 /\ SubSeq(k, 1, 7) = <<"t", "r", "i", "p", "l", "e", ":">>
        \/ Len(k) >= 7 /\ SubSeq(k, 1, 7) = <<"e", "n", "t", "i", "t", "y", ":">>}

\* C11: flush_triples has two outcomes from any store state: without
\* confirmation, or with confirmation and an affirmative response, it returns
\* true and leaves no triple record and no entity record, so that get_all_triples
\* returns the empty list; with confirmation and any other response it returns
\* false and leaves the store as it was.
C11_FlushTwoOutcomes ==
    fl_last.called =>
        IF ~fl_last.confirm \/ Affirmative(fl_last.response)
        THEN /\ fl_last.returned = TRUE
             /\ RecordKeys(fl_last.after) = {}
             /\ get_all_triples(fl_last.after) = <<>>
        ELSE /\ fl_last.returned = FALSE
             /\ fl_last.after = fl_last.before

\* A store with three triple records and entity records was flushed after the
\* response Y.
C11_Witness ==
    /\ fl_last.called
    /\ fl_last.confirm
    /\ fl_last.response = <<"Y">>
    /\ fl_last.returned = TRUE
    /\ Len(get_all_triples(fl_last.before)) = 3
    /\ \E k \in DOMAIN fl_last.before : k = <<"e", "n", "t", "i", "t", "y", ":">> \o Alpha
    /\ RecordKeys(fl_last.after) = {}

====
